---- MODULE Spec2Model ----
(***************************************************************************)
(* Model of the feature orchestration core of automaker:                   *)
(*   app/electron/services/feature-loader.js  (FeatureLoader)              *)
(*   libs/platform/src/subprocess.ts          (spawnJSONLProcess)          *)
(*                                                                         *)
(* A feature is a JavaScript object: here a function from field names to   *)
(* string values whose DOMAIN is the set of defined fields.  A file is a   *)
(* record [kind, items]: kind "missing" (readFile rejects), "garbage"      *)
(* (text JSON.parse rejects), "nonarray" (JSON that is not an array) or    *)
(* "array" (a JSON array).                                                 *)
(***************************************************************************)
EXTENDS Naturals, Sequences, FiniteSets, TLC

VARIABLES
    primary,    \* .automaker/feature_list.json
    backup,     \* .automaker/feature_list.backup.json
    now,        \* the clock read by Date.now()
    ncalls,     \* number of store calls made so far
    last,       \* the most recent store call: arguments, files before the call,
                \* working set, outcome
    calls,      \* concurrent updateFeatureStatus calls (position and locals)
    selItems,   \* argument of the latest selectNextFeature call
    selResult,  \* its result: <<>> for undefined, <<f>> for a feature
    run,        \* one spawnJSONLProcess run: child process, generator, consumer
    sched       \* the scheduler: started flag, concurrency limit, in-flight
                \* counter, RunHandles

vars == <<primary, backup, now, ncalls, last, calls, selItems, selResult, run, sched>>

----------------------------------------------------------------------------
(* Bounds of the model *)

MaxCalls == 2       \* store calls per behaviour
MaxNow == 1         \* clock values 0..MaxNow
MaxSelLen == 4      \* longest list handed to selectNextFeature
MaxLines == 2       \* stdout lines a subprocess writes
MaxClock == 2       \* clock values 0..MaxClock during a subprocess run
IdleTimeout == 2    \* options.timeout, in clock ticks
MaxItems == 3       \* items of the backlog handed to the scheduler
MaxLimit == 2       \* largest concurrencyLimit given to start or setConcurrency

----------------------------------------------------------------------------
(* Values *)

\* JavaScript's undefined, as an argument or as the value of a missing field
Undefined == "(undefined)"

Statuses == {"backlog", "in_progress", "waiting_approval", "verified", "error"}

\* feature-loader.js:113-117
CanonicalFields == {"id", "category", "description", "steps", "status"}

\* feature-loader.js:120-150
OptionalFields == {"skipTests", "images", "imagePaths", "startedAt", "summary",
                   "model", "thinkingLevel", "error", "worktreePath", "branchName"}

\* JavaScript's null, as an argument or as a JSON value
Null == "(null)"

\* JavaScript truthiness of a string, null or undefined: if (summary), if (error),
\* if (worktreePath), f.id || ...
Truthy(v) == v # Undefined /\ v # "" /\ v # Null

Get(f, k) == IF k \in DOMAIN f THEN f[k] ELSE Undefined

\* f with key k set to v (assignment f.k = v)
SetField(f, k, v) == [x \in DOMAIN f \cup {k} |-> IF x = k THEN v ELSE f[x]]

\* delete f.k
DeleteField(f, k) == [x \in DOMAIN f \ {k} |-> f[x]]

MissingFile == [kind |-> "missing", items |-> <<>>]
GarbageFile == [kind |-> "garbage", items |-> <<>>]
\* valid JSON that is not an array, such as {} or "x"
NonArrayFile == [kind |-> "nonarray", items |-> <<>>]
ArrayFile(items) == [kind |-> "array", items |-> items]

----------------------------------------------------------------------------
(* Sample backlogs the behaviours start from *)

MinimalFeature(id, status) ==
    [id |-> id, category |-> "Core", description |-> "d-" \o id,
     steps |-> "steps-" \o id, status |-> status]

FullFeature(id, status) ==
    [id |-> id, category |-> "UI", description |-> "d-" \o id,
     steps |-> "steps-" \o id, status |-> status,
     skipTests |-> "true", images |-> "img", imagePaths |-> "paths",
     startedAt |-> "t0", summary |-> "s0", model |-> "opus",
     thinkingLevel |-> "high", error |-> "e0",
     worktreePath |-> "/wt/" \o id, branchName |-> "feature/" \o id]

InitialBacklogs ==
    { <<FullFeature("a", "backlog"), MinimalFeature("b", "verified")>>,
      <<MinimalFeature("a", "in_progress"), FullFeature("b", "error")>>,
      <<MinimalFeature("a", "waiting_approval")>>,
      <<DeleteField(MinimalFeature("a", "backlog"), "id"),
        MinimalFeature("b", "backlog")>> }

IdArgs == {"a", "b", "zz"}
StatusArgs == {"in_progress", "verified", "error"}
\* <<summary, error>> arguments: omitted, empty or a text
TextArgs == { <<Undefined, Undefined>>, <<"s1", Undefined>>, <<Undefined, "e1">>,
             <<"s1", "e1">>, <<"", "">> }

----------------------------------------------------------------------------
(* FeatureLoader *)

\* fs.readFile(p, "utf-8") resolves iff the file exists and is readable
Readable(file) == file.kind # "missing"

\* JSON.stringify(toSave, null, 2): a key whose value is undefined is omitted
JsonStringify(items) ==
    ArrayFile([i \in 1..Len(items) |->
        [k \in {x \in DOMAIN items[i] : items[i][x] # Undefined} |-> items[i][k]]])

\* `feature-${index}-${Date.now()}` (index is 0-based)
GeneratedId(i, t) == "feature-" \o ToString(i - 1) \o "-" \o ToString(t)

\* An array element that is not an object: JSON null, or a JSON number
JsonNull == [x \in {"(json)"} |-> "null"]
JsonNumber == [x \in {"(json)"} |-> "number"]
IsObject(e) == "(json)" \notin DOMAIN e

\* line 23-26: {...f, id: f.id || `feature-${index}-${Date.now()}`}; spreading a
\* number gives {} and its .id is undefined
LoadElement(e, i, t) ==
    IF IsObject(e)
    THEN SetField(e, "id", IF Truthy(Get(e, "id")) THEN e["id"]
                           ELSE GeneratedId(i, t))
    ELSE [x \in {"id"} |-> GeneratedId(i, t)]

\* lines 17-26, the body of the try: readFile rejects (no file, or an I/O error),
\* JSON.parse throws, .map is not a function on a non-array, f.id throws on null
TryLoad(file, t, readFails) ==
    IF readFails \/ file.kind # "array"
    THEN [raised |-> TRUE, value |-> <<>>]
    ELSE IF \E i \in 1..Len(file.items) : file.items[i] = JsonNull
    THEN [raised |-> TRUE, value |-> <<>>]
    ELSE [raised |-> FALSE,
          value |-> [i \in 1..Len(file.items) |-> LoadElement(file.items[i], i, t)]]

\* Mutant: no catch around the body
LoadFeaturesIO_noCatch(file, t, readFails) ==
    [raised |-> TryLoad(file, t, readFails).raised,
     result |-> TryLoad(file, t, readFails).value]

\* Mutant: elements that are not objects are filtered out
LoadFeaturesIO_skipsNonObjects(file, t, readFails) ==
    [raised |-> FALSE,
     result |-> IF TryLoad(file, t, readFails).raised THEN <<>>
                ELSE SelectSeq(TryLoad(file, t, readFails).value,
                               LAMBDA f : DOMAIN f # {"id"})]

\* loadFeatures, lines 11-31: the catch at 27-30 turns every failure into []
LoadFeaturesIO(file, t, readFails) ==
    [raised |-> FALSE,
     result |-> IF TryLoad(file, t, readFails).raised THEN <<>>
                ELSE TryLoad(file, t, readFails).value]

\* loadFeatures when the read itself does not fail
LoadFeatures(file, t) == LoadFeaturesIO(file, t, FALSE).result

\* lines 55-61: the backup receives the primary file's bytes when it can be read
BackupStep(prim, bak) == IF Readable(prim) THEN prim ELSE bak

\* lines 70-85: an empty load is replaced by the backup's records when the backup
\* parses to a non-empty array
RestoreFromBackup(features, bak) ==
    IF Len(features) = 0 /\ bak.kind = "array" /\ Len(bak.items) > 0
    THEN bak.items ELSE features

\* features.find((f) => f.id === featureId): index of the first match, 0 if none
RECURSIVE FindFrom(_, _, _)
FindFrom(features, featureId, i) ==
    IF i > Len(features) THEN 0
    ELSE IF Get(features[i], "id") = featureId THEN i
    ELSE FindFrom(features, featureId, i + 1)

\* Mutant: an unknown id falls back to the first feature
FindIndex_defaultFirst(features, featureId) ==
    IF FindFrom(features, featureId, 1) = 0 /\ Len(features) > 0 THEN 1
    ELSE FindFrom(features, featureId, 1)

FindIndex(features, featureId) == FindFrom(features, featureId, 1)

\* Mutant: a previous error is kept when no error is given
PatchFeature_keepsError(f, status, summary, error) ==
    LET f1 == SetField(f, "status", status)
        f2 == IF Truthy(summary) THEN SetField(f1, "summary", summary) ELSE f1
    IN IF Truthy(error) THEN SetField(f2, "error", error) ELSE f2

\* Mutant: a new summary is appended to the one already stored
PatchFeature_appendsSummary(f, status, summary, error) ==
    LET f1 == SetField(f, "status", status)
        f2 == IF Truthy(summary)
              THEN SetField(f1, "summary",
                            IF Truthy(Get(f, "summary"))
                            THEN Get(f, "summary") \o " " \o summary ELSE summary)
              ELSE f1
    IN IF Truthy(error) THEN SetField(f2, "error", error)
       ELSE DeleteField(f2, "error")

\* lines 94-108
PatchFeature(f, status, summary, error) ==
    LET f1 == SetField(f, "status", status)
        f2 == IF Truthy(summary) THEN SetField(f1, "summary", summary) ELSE f1
    IN IF Truthy(error) THEN SetField(f2, "error", error)
       ELSE DeleteField(f2, "error")

\* Mutant: the projection forgets the model field
ProjectFeature_dropsModel(f) ==
    [k \in CanonicalFields \cup
           {o \in OptionalFields \ {"model"} : Get(f, o) # Undefined} |-> Get(f, k)]

\* lines 112-151: the canonical fields always, an optional field when defined
ProjectFeature(f) ==
    [k \in CanonicalFields \cup
           {o \in OptionalFields : Get(f, o) # Undefined} |-> Get(f, k)]

\* Mutant: the saved list keeps only the features still to be worked on
ToSave_dropsVerified(features) ==
    SelectSeq([i \in 1..Len(features) |-> ProjectFeature(features[i])],
              LAMBDA f : f["status"] # "verified")

\* Mutant: the saved list is written most recent first
ToSave_reversed(features) ==
    [i \in 1..Len(features) |-> ProjectFeature(features[Len(features) + 1 - i])]

\* lines 111-152: features.map(...)
ToSave(features) == [i \in 1..Len(features) |-> ProjectFeature(features[i])]

\* Mutant: no early return for an unknown id and no final validation
UpdateFeatureStatus_noReturn(prim, bak, featureId, status, summary, error, t) ==
    LET bak1 == BackupStep(prim, bak)
        features == RestoreFromBackup(LoadFeatures(prim, t), bak1)
        idx == FindIndex(features, featureId)
        patched == IF idx = 0 THEN features
                   ELSE [features EXCEPT
                            ![idx] = PatchFeature(@, status, summary, error)]
    IN [primary |-> JsonStringify(ToSave(patched)), backup |-> bak1,
        outcome |-> "saved", working |-> features]

\* Mutant: the empty-list validation runs before the lookup
UpdateFeatureStatus_validatesFirst(prim, bak, featureId, status, summary, error, t) ==
    LET bak1 == BackupStep(prim, bak)
        features == RestoreFromBackup(LoadFeatures(prim, t), bak1)
        idx == FindIndex(features, featureId)
    IN IF Len(features) = 0
       THEN [primary |-> prim, backup |-> bak1, outcome |-> "threw",
             working |-> features]
       ELSE IF idx = 0
       THEN [primary |-> prim, backup |-> bak1, outcome |-> "not_found",
             working |-> features]
       ELSE [primary |-> JsonStringify(ToSave([features EXCEPT
                              ![idx] = PatchFeature(@, status, summary, error)])),
             backup |-> bak1, outcome |-> "saved", working |-> features]

\* updateFeatureStatus, lines 41-162, run without interleaving.
\* outcome: "saved" (line 159 reached), "not_found" (return at line 91),
\* "threw" (line 156).
UpdateFeatureStatus(prim, bak, featureId, status, summary, error, t) ==
    LET bak1 == BackupStep(prim, bak)
        features == RestoreFromBackup(LoadFeatures(prim, t), bak1)
        idx == FindIndex(features, featureId)
    IN IF idx = 0
       THEN [primary |-> prim, backup |-> bak1, outcome |-> "not_found",
             working |-> features]
       ELSE LET toSave == ToSave([features EXCEPT
                              ![idx] = PatchFeature(@, status, summary, error)])
            IN IF Len(toSave) = 0
               THEN [primary |-> prim, backup |-> bak1, outcome |-> "threw",
                     working |-> features]
               ELSE [primary |-> JsonStringify(toSave), backup |-> bak1,
                     outcome |-> "saved", working |-> features]

\* Mutant: annotating a worktree also marks the feature as started
PatchWorktree_touchesStatus(f, worktreePath, branchName) ==
    IF Truthy(worktreePath)
    THEN SetField(SetField(SetField(f, "worktreePath", worktreePath),
                           "branchName", branchName), "status", "in_progress")
    ELSE DeleteField(DeleteField(f, "worktreePath"), "branchName")

\* lines 202-209: a truthy path sets both fields as given, anything else deletes
\* both
PatchWorktree(f, worktreePath, branchName) ==
    IF Truthy(worktreePath)
    THEN SetField(SetField(f, "worktreePath", worktreePath),
                  "branchName", branchName)
    ELSE DeleteField(DeleteField(f, "worktreePath"), "branchName")

\* Mutant: clearing removes the path and leaves the branch name
UpdateFeatureWorktree_keepsBranch(prim, featureId, worktreePath, branchName, t) ==
    LET features == LoadFeatures(prim, t)
        idx == FindIndex(features, featureId)
    IN IF Len(features) = 0
       THEN [primary |-> prim, outcome |-> "empty", working |-> features]
       ELSE IF idx = 0
       THEN [primary |-> prim, outcome |-> "not_found", working |-> features]
       ELSE [primary |-> JsonStringify(ToSave([features EXCEPT ![idx] =
                 IF Truthy(worktreePath)
                 THEN PatchWorktree(@, worktreePath, branchName)
                 ELSE DeleteField(@, "worktreePath")])),
             outcome |-> "saved", working |-> features]

\* updateFeatureWorktree, lines 181-235, run without interleaving.
\* outcome: "saved" (line 233 reached), "empty" (return at line 192),
\* "not_found" (return at line 199).  The backup file is not touched.
UpdateFeatureWorktree(prim, featureId, worktreePath, branchName, t) ==
    LET features == LoadFeatures(prim, t)
        idx == FindIndex(features, featureId)
    IN IF Len(features) = 0
       THEN [primary |-> prim, outcome |-> "empty", working |-> features]
       ELSE IF idx = 0
       THEN [primary |-> prim, outcome |-> "not_found", working |-> features]
       ELSE [primary |-> JsonStringify(ToSave([features EXCEPT
                 ![idx] = PatchWorktree(@, worktreePath, branchName)])),
             outcome |-> "saved", working |-> features]

\* The file operations of a call that an I/O error can hit; the last one is a
\* writeFile that fails after the file was truncated
FaultPoints == {"readOriginal", "writeBackup", "readPrimary", "readBackup",
                "writePrimary", "writePrimaryPartial"}

\* features.find((f) => f.id === featureId) on a list that may hold null:
\* reading null.id throws a TypeError
RECURSIVE FindOutcome(_, _, _)
FindOutcome(features, featureId, i) ==
    IF i > Len(features) THEN [raised |-> FALSE, idx |-> 0]
    ELSE IF features[i] = JsonNull THEN [raised |-> TRUE, idx |-> 0]
    ELSE IF Get(features[i], "id") = featureId THEN [raised |-> FALSE, idx |-> i]
    ELSE FindOutcome(features, featureId, i + 1)

\* features.map((f) => ({id: f.id, ...})) throws on a null element
MapRaises(features) == \E i \in 1..Len(features) : features[i] = JsonNull

\* lines 72-84: the backup is used when it can be read and parses to a non-empty
\* array; its elements are pushed as they are
RestoreFromBackupIO(features, bak, readFails) ==
    IF Len(features) = 0 /\ ~readFails /\ bak.kind = "array" /\ Len(bak.items) > 0
    THEN bak.items ELSE features

\* fs.writeFile(featuresPath, text) under the faults of the call
WritePrimary(prim, text, fault) ==
    IF "writePrimaryPartial" \in fault THEN [raised |-> TRUE, file |-> GarbageFile]
    ELSE IF "writePrimary" \in fault THEN [raised |-> TRUE, file |-> prim]
    ELSE [raised |-> FALSE, file |-> text]

\* Mutant: the backup is written after the primary file, from its new content
UpdateFeatureStatusIO_backupLast(prim, bak, featureId, status, summary, error, t, fault) ==
    LET features == RestoreFromBackupIO(
                        LoadFeaturesIO(prim, t, "readPrimary" \in fault).result,
                        bak, "readBackup" \in fault)
        found == FindOutcome(features, featureId, 1)
    IN IF found.raised \/ found.idx = 0 \/ MapRaises(features)
       THEN [primary |-> prim, backup |-> bak, outcome |-> "not_found",
             ops |-> <<>>, working |-> features]
       ELSE LET text == JsonStringify(ToSave([features EXCEPT
                           ![found.idx] = PatchFeature(@, status, summary, error)]))
            IN [primary |-> text, backup |-> text, outcome |-> "saved",
                ops |-> <<"writePrimary", "writeBackup">>, working |-> features]

\* updateFeatureStatus, lines 41-162, with file operations that can fail and
\* files that hold anything.  fault: the operations that fail in this call.
\* outcome: "saved", "not_found" (return at line 91), or "raised": an error
\* leaves the call (TypeError in find or map, the throw at 156, a rejected
\* writeFile at 159).  ops: the writes that took effect, in order.
UpdateFeatureStatusIO(prim, bak, featureId, status, summary, error, t, fault) ==
    LET readOk == Readable(prim) /\ "readOriginal" \notin fault
        backedUp == readOk /\ "writeBackup" \notin fault
        bak1 == IF backedUp THEN prim ELSE bak
        ops1 == IF backedUp THEN <<"writeBackup">> ELSE <<>>
        features == RestoreFromBackupIO(
                        LoadFeaturesIO(prim, t, "readPrimary" \in fault).result,
                        bak1, "readBackup" \in fault)
        found == FindOutcome(features, featureId, 1)
    IN IF found.raised
       THEN [primary |-> prim, backup |-> bak1, outcome |-> "raised",
             ops |-> ops1, working |-> features]
       ELSE IF found.idx = 0
       THEN [primary |-> prim, backup |-> bak1, outcome |-> "not_found",
             ops |-> ops1, working |-> features]
       ELSE IF MapRaises(features)
       THEN [primary |-> prim, backup |-> bak1, outcome |-> "raised",
             ops |-> ops1, working |-> features]
       ELSE LET toSave == ToSave([features EXCEPT
                              ![found.idx] = PatchFeature(@, status, summary, error)])
                w == WritePrimary(prim, JsonStringify(toSave), fault)
            IN IF Len(toSave) = 0
               THEN [primary |-> prim, backup |-> bak1, outcome |-> "raised",
                     ops |-> ops1, working |-> features]
               ELSE [primary |-> w.file, backup |-> bak1,
                     outcome |-> IF w.raised THEN "raised" ELSE "saved",
                     ops |-> IF w.file = prim /\ w.raised THEN ops1
                             ELSE Append(ops1, "writePrimary"),
                     working |-> features]

\* updateFeatureWorktree, lines 181-235, with file operations that can fail.
\* outcome: "saved", "empty" (line 192), "not_found" (line 199), "raised"
\* (a rejected writeFile at 233)
UpdateFeatureWorktreeIO(prim, featureId, worktreePath, branchName, t, fault) ==
    LET features == LoadFeaturesIO(prim, t, "readPrimary" \in fault).result
        idx == FindIndex(features, featureId)
    IN IF Len(features) = 0
       THEN [primary |-> prim, outcome |-> "empty", working |-> features]
       ELSE IF idx = 0
       THEN [primary |-> prim, outcome |-> "not_found", working |-> features]
       ELSE LET w == WritePrimary(prim, JsonStringify(ToSave([features EXCEPT
                         ![idx] = PatchWorktree(@, worktreePath, branchName)])),
                         fault)
            IN [primary |-> w.file,
                outcome |-> IF w.raised THEN "raised" ELSE "saved",
                working |-> features]

\* selectNextFeature, lines 168-172: features.find(...) scanning from position i;
\* <<>> stands for undefined
RECURSIVE SelectFrom(_, _)
SelectFrom(features, i) ==
    IF i > Len(features) THEN <<>>
    ELSE IF Get(features[i], "status") # "verified"
            /\ Get(features[i], "status") # "waiting_approval"
         THEN <<features[i]>>
    ELSE SelectFrom(features, i + 1)

\* Mutant: only verified features are skipped
SelectNextFeature_skipsVerifiedOnly(features) ==
    LET eligible == SelectSeq(features, LAMBDA f : Get(f, "status") # "verified")
    IN IF Len(eligible) = 0 THEN <<>> ELSE <<eligible[1]>>

\* Mutant: features already in progress are left alone
SelectNextFeature_skipsInProgress(features) ==
    LET eligible == SelectSeq(features, LAMBDA f :
                       Get(f, "status") \notin {"verified", "waiting_approval",
                                                "in_progress"})
    IN IF Len(eligible) = 0 THEN <<>> ELSE <<eligible[1]>>

SelectNextFeature(features) == SelectFrom(features, 1)

----------------------------------------------------------------------------
(* Sequential use of the store: each call runs to completion *)

NoCall ==
    [op |-> "none", id |-> Undefined, status |-> Undefined,
     summary |-> Undefined, error |-> Undefined, now |-> 0,
     prePrimary |-> MissingFile, preBackup |-> MissingFile,
     working |-> <<>>, outcome |-> "none"]

NoCalls == [c \in {} |-> NoCall]

\* No subprocess has been spawned
NoRun == [pc |-> "none"]

\* The scheduler before start(): no limit in force, nothing in flight
NoSched == [started |-> FALSE, limit |-> 1, count |-> 0, runs |-> <<>>]

Init ==
    /\ \E b \in InitialBacklogs : primary = ArrayFile(b)
    /\ backup = MissingFile
    /\ now = 0
    /\ ncalls = 0
    /\ last = NoCall
    /\ calls = NoCalls
    /\ selItems = <<>>
    /\ selResult = <<>>
    /\ run = NoRun
    /\ sched = NoSched

UpdateStatus ==
    /\ ncalls < MaxCalls
    /\ ncalls' = ncalls + 1
    /\ \E id \in IdArgs, s \in StatusArgs, txt \in TextArgs :
         LET sm == txt[1]
             er == txt[2]
             r == UpdateFeatureStatus(primary, backup, id, s, sm, er, now)
         IN /\ primary' = r.primary
            /\ backup' = r.backup
            /\ last' = [op |-> "updateStatus", id |-> id, status |-> s,
                        summary |-> sm, error |-> er, now |-> now,
                        prePrimary |-> primary, preBackup |-> backup,
                        working |-> r.working, outcome |-> r.outcome]
    /\ UNCHANGED <<now, calls, selItems, selResult, run, sched>>

\* External corruption of the primary file between calls
CorruptEmptyArray ==
    /\ primary # ArrayFile(<<>>)
    /\ primary' = ArrayFile(<<>>)
    /\ last' = NoCall
    /\ UNCHANGED <<backup, now, ncalls, calls, selItems, selResult, run, sched>>

CorruptGarbage ==
    /\ primary # GarbageFile
    /\ primary' = GarbageFile
    /\ last' = NoCall
    /\ UNCHANGED <<backup, now, ncalls, calls, selItems, selResult, run, sched>>

RemovePrimary ==
    /\ primary # MissingFile
    /\ primary' = MissingFile
    /\ last' = NoCall
    /\ UNCHANGED <<backup, now, ncalls, calls, selItems, selResult, run, sched>>

Tick ==
    /\ now < MaxNow
    /\ now' = now + 1
    /\ UNCHANGED <<primary, backup, ncalls, last, calls, selItems, selResult, run, sched>>

Next ==
    \/ UpdateStatus
    \/ CorruptEmptyArray
    \/ CorruptGarbage
    \/ RemovePrimary
    \/ Tick

Spec == Init /\ [][Next]_vars

----------------------------------------------------------------------------
(* Properties of the store under sequential use *)

ValidNonEmpty(file) == file.kind = "array" /\ Len(file.items) > 0

Ids(items) == {Get(items[i], "id") : i \in 1..Len(items)}

\* The ids the records of a collection carry (a record stored without id has none)
StoredIds(items) == {x \in Ids(items) : Truthy(x)}

RecordCount(file) == IF file.kind = "array" THEN Len(file.items) ELSE 0

\* A backlog of the data model: every item has a non-empty id, ids are unique
ValidBacklog(file) ==
    /\ ValidNonEmpty(file)
    /\ \A i \in 1..Len(file.items) :
          /\ Truthy(Get(file.items[i], "id"))
          /\ DOMAIN file.items[i] \subseteq CanonicalFields \cup OptionalFields
          /\ \A j \in 1..Len(file.items) :
                file.items[i]["id"] = file.items[j]["id"] => i = j

Updated == last.op = "updateStatus"

\* Position in the working set of the feature the latest call addressed
LastIdx == FindFrom(last.working, last.id, 1)

\* C1: no updateStatus call loses the backlog: if before the call the primary or
\* the backup file holds a valid non-empty collection, then after the call one of
\* the two files holds a valid non-empty collection with every id of that one.
C1_NoSilentLoss ==
    [][ (ncalls' = ncalls + 1 /\ last'.op = "updateStatus") =>
          \A f \in {primary, backup} :
             ValidNonEmpty(f) =>
                \E g \in {primary', backup'} :
                   ValidNonEmpty(g) /\ StoredIds(f.items) \subseteq StoredIds(g.items) ]_vars

\* C3: a call made while the primary file holds an empty array and the backup a
\* valid non-empty collection containing the id leaves the primary file with all
\* the backup's records, the addressed one at the new status.
C3_RecoversFromBackup ==
    ( /\ Updated
      /\ last.prePrimary = ArrayFile(<<>>)
      /\ ValidNonEmpty(last.preBackup)
      /\ last.id \in Ids(last.preBackup.items) )
    => /\ primary.kind = "array"
       /\ Len(primary.items) = Len(last.preBackup.items)
       /\ \A i \in 1..Len(primary.items) :
             /\ Get(primary.items[i], "id") = Get(last.preBackup.items[i], "id")
             /\ Get(primary.items[i], "id") = last.id
                   => Get(primary.items[i], "status") = last.status

\* C4: a call that writes the primary file writes at least as many records as the
\* primary file held when the call began.
C4_CardinalityNonDecreasing ==
    (Updated /\ last.outcome = "saved")
    => /\ primary.kind = "array"
       /\ Len(primary.items) >= RecordCount(last.prePrimary)

C4_Witness ==
    /\ Updated /\ last.outcome = "saved"
    /\ RecordCount(last.prePrimary) = 2
    /\ \E i \in 1..Len(primary.items) : primary.items[i]["status"] = "verified"

\* C5: no call writes an empty collection: a primary file changed by a call holds
\* a non-empty array, and a call whose working set is empty leaves it untouched.
C5_NeverWritesEmpty ==
    Updated =>
       /\ (primary # last.prePrimary \/ last.outcome = "saved")
             => ValidNonEmpty(primary)
       /\ Len(last.working) = 0 => primary = last.prePrimary

C5_Witness ==
    /\ Updated /\ Len(last.working) = 0
    /\ last.prePrimary = GarbageFile /\ primary = GarbageFile

\* C6 as stated: a call whose working set is empty aborts with an error.
C6_EmptyWorkingSetAborts ==
    (Updated /\ Len(last.working) = 0) => last.outcome = "threw"

\* C6 amended: a call whose working set is empty returns normally through the
\* unknown-id return, without writing the primary file.
C6_EmptyWorkingSetReturns ==
    (Updated /\ Len(last.working) = 0)
    => last.outcome = "not_found" /\ primary = last.prePrimary

C6_Witness ==
    /\ Updated /\ Len(last.working) = 0
    /\ last.prePrimary = MissingFile /\ ~ValidNonEmpty(last.preBackup)
    /\ last.outcome = "not_found"

\* C7: for a valid backlog and an id in it, updateStatus(id, s) then load() gives
\* the same items in the same order, the addressed item at status s with every
\* field other than status, summary and error unchanged, every other item
\* unchanged.
C7_UpdateRoundTrip ==
    (Updated /\ ValidBacklog(last.prePrimary)
             /\ last.id \in Ids(last.prePrimary.items))
    => LET before == last.prePrimary.items
           after == LoadFeatures(primary, now)
       IN /\ Len(after) = Len(before)
          /\ \A i \in 1..Len(before) :
                IF before[i]["id"] = last.id
                THEN /\ Get(after[i], "status") = last.status
                     /\ \A k \in (CanonicalFields \cup OptionalFields)
                                    \ {"status", "summary", "error"} :
                           Get(after[i], k) = Get(before[i], k)
                     /\ DOMAIN after[i] \ {"summary", "error"}
                           = DOMAIN before[i] \ {"summary", "error"}
                ELSE after[i] = before[i]

C7_Witness ==
    /\ Updated /\ ValidBacklog(last.prePrimary)
    /\ last.id \in Ids(last.prePrimary.items)
    /\ Len(primary.items) = 2
    /\ \E i \in 1..2 : primary.items[i]["id"] = last.id
                         /\ "model" \in DOMAIN primary.items[i]
                         /\ primary.items[i]["status"] = last.status
                         /\ last.prePrimary.items[i]["status"] # last.status

\* C8 as stated: after a successful call the item's error equals errorText when
\* one was given and is absent otherwise; its summary equals the given summary
\* when one was given and keeps its previous value otherwise.
C8_ErrorSummaryRule ==
    (Updated /\ last.outcome = "saved")
    => LET f == primary.items[LastIdx]
           old == last.working[LastIdx]
       IN /\ last.error # Undefined => Get(f, "error") = last.error
          /\ last.error = Undefined => "error" \notin DOMAIN f
          /\ last.summary # Undefined => Get(f, "summary") = last.summary
          /\ last.summary = Undefined => Get(f, "summary") = Get(old, "summary")

\* C8 amended: the same with "given" meaning a non-empty string: an empty
\* errorText removes the error, an empty summary keeps the previous summary.
C8_ErrorSummaryRuleNonEmpty ==
    (Updated /\ last.outcome = "saved")
    => LET f == primary.items[LastIdx]
           old == last.working[LastIdx]
       IN /\ Truthy(last.error) => Get(f, "error") = last.error
          /\ ~Truthy(last.error) => "error" \notin DOMAIN f
          /\ Truthy(last.summary) => Get(f, "summary") = last.summary
          /\ ~Truthy(last.summary) => Get(f, "summary") = Get(old, "summary")

C8_Witness ==
    /\ Updated /\ last.outcome = "saved"
    /\ last.error = "" /\ last.summary = ""
    /\ Get(last.working[LastIdx], "error") = "e0"
    /\ "error" \notin DOMAIN primary.items[LastIdx]
    /\ Get(primary.items[LastIdx], "summary") = "s0"

----------------------------------------------------------------------------
(* selectNextFeature on arbitrary lists *)

\* The i-th feature of a list: a status, or no status field at all
SelFeature(i, st) ==
    IF st = Undefined THEN [id |-> "f" \o ToString(i)]
    ELSE [id |-> "f" \o ToString(i), status |-> st]

SelLists ==
    UNION { { [i \in 1..n |-> SelFeature(i, sts[i])] :
                 sts \in [1..n -> Statuses \cup {Undefined}] } : n \in 0..MaxSelLen }

InitSelect ==
    /\ primary = MissingFile
    /\ backup = MissingFile
    /\ now = 0
    /\ ncalls = 0
    /\ last = NoCall
    /\ calls = NoCalls
    /\ selItems \in SelLists
    /\ selResult = <<>>
    /\ run = NoRun
    /\ sched = NoSched

SelectNext ==
    /\ last.op = "none"
    /\ selResult' = SelectNextFeature(selItems)
    /\ last' = [NoCall EXCEPT !.op = "selectNext"]
    /\ UNCHANGED <<primary, backup, now, ncalls, calls, selItems, run, sched>>

NextSelect == SelectNext

SpecSelect == InitSelect /\ [][NextSelect]_vars

----------------------------------------------------------------------------
(* Concurrent updateFeatureStatus calls.  A call is an async function: it runs
   without interruption between two awaits, and every await is a file access
   (readFile 56, writeFile 57, readFile 19, readFile 74, writeFile 159) after
   which another call may run.  The code takes no lock. *)

ConcCalls == {1, 2}
ConcIdArgs == {"a", "b"}
ConcStatusArgs == {"in_progress", "verified"}
ConcTextArgs == { <<Undefined, Undefined>>, <<"s1", "e1">> }

IdleCall ==
    [pc |-> "idle", id |-> Undefined, status |-> Undefined,
     summary |-> Undefined, error |-> Undefined,
     original |-> MissingFile, toSave |-> <<>>, outcome |-> "none"]

\* lines 87-157: from the working set to the return at 91, the throw at 156 or
\* the pending writeFile of line 159
AfterLoad(call, features) ==
    LET idx == FindIndex(features, call.id)
    IN IF idx = 0
       THEN [call EXCEPT !.pc = "done", !.outcome = "not_found"]
       ELSE LET toSave == ToSave([features EXCEPT
                    ![idx] = PatchFeature(@, call.status, call.summary, call.error)])
            IN IF Len(toSave) = 0
               THEN [call EXCEPT !.pc = "done", !.outcome = "threw"]
               ELSE [call EXCEPT !.pc = "writePrimary", !.toSave = toSave]

InitConc ==
    /\ \E b \in InitialBacklogs : primary = ArrayFile(b)
    /\ backup = MissingFile
    /\ now = 0
    /\ ncalls = 0
    /\ last = NoCall
    /\ calls = [c \in ConcCalls |-> IdleCall]
    /\ selItems = <<>>
    /\ selResult = <<>>
    /\ run = NoRun
    /\ sched = NoSched

\* updateFeatureStatus is called: line 41
ConcBegin(c) ==
    /\ calls[c].pc = "idle"
    /\ \E id \in ConcIdArgs, s \in ConcStatusArgs, txt \in ConcTextArgs :
         calls' = [calls EXCEPT ![c] =
                     [IdleCall EXCEPT !.pc = "readOriginal", !.id = id,
                                      !.status = s, !.summary = txt[1],
                                      !.error = txt[2]]]
    /\ UNCHANGED <<primary, backup, now, ncalls, last, selItems, selResult, run, sched>>

\* line 56: readFile(featuresPath); a rejection goes to the catch at 59
ConcReadOriginal(c) ==
    /\ calls[c].pc = "readOriginal"
    /\ calls' = [calls EXCEPT ![c] =
                    IF Readable(primary)
                    THEN [@ EXCEPT !.pc = "writeBackup", !.original = primary]
                    ELSE [@ EXCEPT !.pc = "load"]]
    /\ UNCHANGED <<primary, backup, now, ncalls, last, selItems, selResult, run, sched>>

\* line 57: writeFile(backupPath, originalContent)
ConcWriteBackup(c) ==
    /\ calls[c].pc = "writeBackup"
    /\ backup' = calls[c].original
    /\ calls' = [calls EXCEPT ![c].pc = "load"]
    /\ UNCHANGED <<primary, now, ncalls, last, selItems, selResult, run, sched>>

\* line 63: loadFeatures reads the primary file; a non-empty list runs on to the
\* writeFile of line 159, an empty one to the readFile of line 74
ConcLoad(c) ==
    /\ calls[c].pc = "load"
    /\ calls' = [calls EXCEPT ![c] =
                    IF Len(LoadFeatures(primary, now)) = 0
                    THEN [@ EXCEPT !.pc = "readBackup"]
                    ELSE AfterLoad(@, LoadFeatures(primary, now))]
    /\ UNCHANGED <<primary, backup, now, ncalls, last, selItems, selResult, run, sched>>

\* lines 74-85: readFile(backupPath) and the restore
ConcReadBackup(c) ==
    /\ calls[c].pc = "readBackup"
    /\ calls' = [calls EXCEPT ![c] =
                    AfterLoad(@, RestoreFromBackup(<<>>, backup))]
    /\ UNCHANGED <<primary, backup, now, ncalls, last, selItems, selResult, run, sched>>

\* line 159: writeFile(featuresPath, JSON.stringify(toSave))
ConcWritePrimary(c) ==
    /\ calls[c].pc = "writePrimary"
    /\ primary' = JsonStringify(calls[c].toSave)
    /\ calls' = [calls EXCEPT ![c].pc = "done", ![c].outcome = "saved"]
    /\ UNCHANGED <<backup, now, ncalls, last, selItems, selResult, run, sched>>

NextConc ==
    \/ \E c \in ConcCalls : ConcBegin(c)
    \/ \E c \in ConcCalls : ConcReadOriginal(c)
    \/ \E c \in ConcCalls : ConcWriteBackup(c)
    \/ \E c \in ConcCalls : ConcLoad(c)
    \/ \E c \in ConcCalls : ConcReadBackup(c)
    \/ \E c \in ConcCalls : ConcWritePrimary(c)
    \/ RemovePrimary

SpecConc == InitConc /\ [][NextConc]_vars

\* C2: once two calls on two different items have both completed their write, the
\* persisted collection shows the new status of both items.
C2_NoLostUpdate ==
    ( /\ \A c \in ConcCalls : calls[c].pc = "done" /\ calls[c].outcome = "saved"
      /\ calls[1].id # calls[2].id
      /\ primary.kind = "array" )
    => \A c \in ConcCalls :
          \E i \in 1..Len(primary.items) :
             /\ Get(primary.items[i], "id") = calls[c].id
             /\ Get(primary.items[i], "status") = calls[c].status

----------------------------------------------------------------------------
(* Worktree annotation: updateFeatureWorktree and updateFeatureStatus calls made
   one after another *)

PathArgs == {Null, "/wt/x"}
BranchArgs == {Null, Undefined, "feature/x"}

UpdateWorktree ==
    /\ ncalls < MaxCalls
    /\ ncalls' = ncalls + 1
    /\ \E id \in IdArgs, wp \in PathArgs, bn \in BranchArgs :
         LET r == UpdateFeatureWorktree(primary, id, wp, bn, now)
         IN /\ primary' = r.primary
            /\ last' = [op |-> "updateWorktree", id |-> id,
                        worktreePath |-> wp, branchName |-> bn, now |-> now,
                        prePrimary |-> primary, preBackup |-> backup,
                        working |-> r.working, outcome |-> r.outcome]
    /\ UNCHANGED <<backup, now, calls, selItems, selResult, run, sched>>

\* updateFeatureStatus(id, "verified") between the worktree calls
UpdateStatusWt ==
    /\ ncalls < MaxCalls
    /\ ncalls' = ncalls + 1
    /\ \E id \in IdArgs :
         LET r == UpdateFeatureStatus(primary, backup, id, "verified",
                                      Undefined, Undefined, now)
         IN /\ primary' = r.primary
            /\ backup' = r.backup
            /\ last' = [op |-> "updateStatus", id |-> id, status |-> "verified",
                        summary |-> Undefined, error |-> Undefined, now |-> now,
                        prePrimary |-> primary, preBackup |-> backup,
                        working |-> r.working, outcome |-> r.outcome]
    /\ UNCHANGED <<now, calls, selItems, selResult, run, sched>>

NextWt ==
    \/ UpdateWorktree
    \/ UpdateStatusWt

SpecWt == Init /\ [][NextWt]_vars

\* A field holds a value: the key is there and its value is not null
IsSet(f, k) == Get(f, k) # Undefined /\ Get(f, k) # Null

Paired(f) == IsSet(f, "worktreePath") <=> IsSet(f, "branchName")

\* C11: every persisted record has worktreePath and branchName both set or both
\* absent, after any sequence of updateWorktree and updateStatus calls.
C11_WorktreePairing ==
    primary.kind = "array" =>
       \A i \in 1..Len(primary.items) : Paired(primary.items[i])

WorktreeCleared ==
    /\ last.op = "updateWorktree"
    /\ last.worktreePath = Null /\ last.branchName = Null
    /\ LastIdx # 0
    /\ IsSet(last.working[LastIdx], "worktreePath")
    /\ IsSet(last.working[LastIdx], "branchName")

\* C12: updateWorktree(id, null, null) on an item whose worktreePath and
\* branchName are set leaves the persisted record with neither field and changes
\* no other field of any record.
C12_WorktreeClearing ==
    WorktreeCleared =>
       /\ last.outcome = "saved"
       /\ primary.kind = "array"
       /\ Len(primary.items) = Len(last.prePrimary.items)
       /\ \A i \in 1..Len(primary.items) :
             IF i = LastIdx
             THEN /\ "worktreePath" \notin DOMAIN primary.items[i]
                  /\ "branchName" \notin DOMAIN primary.items[i]
                  /\ primary.items[i] =
                        DeleteField(DeleteField(last.prePrimary.items[i],
                                                "worktreePath"), "branchName")
             ELSE primary.items[i] = last.prePrimary.items[i]

\* the pair cleared was written by an earlier updateWorktree call
C12_Witness ==
    /\ WorktreeCleared
    /\ last.working[LastIdx]["worktreePath"] = "/wt/x"
    /\ last.working[LastIdx]["branchName"] = "feature/x"
    /\ Len(primary.items) = 2
    /\ "worktreePath" \notin DOMAIN primary.items[LastIdx]

----------------------------------------------------------------------------
(* The store on files that hold anything, with file operations that can fail *)

IOPrimaries ==
    { MissingFile, GarbageFile, NonArrayFile, ArrayFile(<<>>),
      ArrayFile(<<MinimalFeature("a", "backlog"), JsonNull>>),
      ArrayFile(<<JsonNumber, MinimalFeature("a", "backlog")>>),
      ArrayFile(<<MinimalFeature("a", "in_progress"), FullFeature("b", "error")>>),
      ArrayFile(<<DeleteField(MinimalFeature("a", "backlog"), "id"),
                  MinimalFeature("b", "backlog")>>) }

IOBackups ==
    { MissingFile,
      ArrayFile(<<MinimalFeature("a", "backlog"), FullFeature("b", "backlog")>>) }

\* at most one operation fails in a call
FaultCases == {{}} \cup {{p} : p \in FaultPoints}

IOIdArgs == {"a", "zz"}

InitIO ==
    /\ primary \in IOPrimaries
    /\ backup \in IOBackups
    /\ now = 0
    /\ ncalls = 0
    /\ last = NoCall
    /\ calls = NoCalls
    /\ selItems = <<>>
    /\ selResult = <<>>
    /\ run = NoRun
    /\ sched = NoSched

\* loadFeatures(projectPath)
LoadIO ==
    /\ ncalls < MaxCalls
    /\ ncalls' = ncalls + 1
    /\ \E readFails \in BOOLEAN :
         LET r == LoadFeaturesIO(primary, now, readFails)
         IN last' = [op |-> "load", readFails |-> readFails, now |-> now,
                     prePrimary |-> primary, preBackup |-> backup,
                     raised |-> r.raised, result |-> r.result]
    /\ UNCHANGED <<primary, backup, now, calls, selItems, selResult, run, sched>>

\* updateFeatureStatus(id, "verified", projectPath)
UpdateStatusIO ==
    /\ ncalls < MaxCalls
    /\ ncalls' = ncalls + 1
    /\ \E id \in IOIdArgs, fault \in FaultCases :
         LET r == UpdateFeatureStatusIO(primary, backup, id, "verified",
                                        Undefined, Undefined, now, fault)
         IN /\ primary' = r.primary
            /\ backup' = r.backup
            /\ last' = [op |-> "updateStatus", id |-> id, fault |-> fault,
                        now |-> now, prePrimary |-> primary, preBackup |-> backup,
                        working |-> r.working, outcome |-> r.outcome,
                        ops |-> r.ops]
    /\ UNCHANGED <<now, calls, selItems, selResult, run, sched>>

\* updateFeatureWorktree(id, projectPath, "/wt/x", "feature/x") or (id, .., null, null)
UpdateWorktreeIO ==
    /\ ncalls < MaxCalls
    /\ ncalls' = ncalls + 1
    /\ \E id \in IOIdArgs, fault \in FaultCases,
          wt \in {<<Null, Null>>, <<"/wt/x", "feature/x">>} :
         LET r == UpdateFeatureWorktreeIO(primary, id, wt[1], wt[2], now, fault)
         IN /\ primary' = r.primary
            /\ last' = [op |-> "updateWorktree", id |-> id, fault |-> fault,
                        now |-> now, prePrimary |-> primary, preBackup |-> backup,
                        working |-> r.working, outcome |-> r.outcome,
                        ops |-> <<>>]
    /\ UNCHANGED <<backup, now, calls, selItems, selResult, run, sched>>

NextIO ==
    \/ LoadIO
    \/ UpdateStatusIO
    \/ UpdateWorktreeIO

SpecIO == InitIO /\ [][NextIO]_vars

Loaded == last.op = "load"

HasNonObject(file) ==
    file.kind = "array" /\ \E i \in 1..Len(file.items) : ~IsObject(file.items[i])

\* the records of a file in file order, as load returns them (id defaulted)
RecordsInOrder(file, t) ==
    [i \in 1..Len(file.items) |->
        IF Truthy(Get(file.items[i], "id")) THEN file.items[i]
        ELSE SetField(file.items[i], "id", GeneratedId(i, t))]

\* C13: load() never raises; for a primary file that is missing, unreadable,
\* not JSON, JSON but not an array, or an array with non-object elements it
\* returns the empty sequence, and for a valid array the records in file order.
C13_LoadNeverRaises ==
    Loaded =>
       /\ ~last.raised
       /\ IF last.readFails \/ last.prePrimary.kind # "array"
             \/ HasNonObject(last.prePrimary)
          THEN last.result = <<>>
          ELSE last.result = RecordsInOrder(last.prePrimary, last.now)

\* C13 as the code has it: load() never raises; it returns the empty sequence
\* when the file is missing, unreadable, not JSON, not an array or an array
\* holding null; otherwise one record per element in file order, where an
\* element that is not an object becomes a record with a generated id only.
C13_LoadNeverRaisesNullOnly ==
    Loaded =>
       /\ ~last.raised
       /\ IF last.readFails \/ last.prePrimary.kind # "array"
             \/ \E i \in 1..Len(last.prePrimary.items) :
                    last.prePrimary.items[i] = JsonNull
          THEN last.result = <<>>
          ELSE /\ Len(last.result) = Len(last.prePrimary.items)
               /\ \A i \in 1..Len(last.result) :
                     IF IsObject(last.prePrimary.items[i])
                     THEN last.result[i] =
                            RecordsInOrder(last.prePrimary, last.now)[i]
                     ELSE last.result[i] =
                            [x \in {"id"} |-> GeneratedId(i, last.now)]

\* load of an array with a number in it
C13_Witness ==
    /\ Loaded
    /\ ~last.readFails
    /\ HasNonObject(last.prePrimary)
    /\ Len(last.result) = 2

\* position of a write in the ops of the latest call, 0 when it did not happen
RECURSIVE OpIndex(_, _, _)
OpIndex(ops, name, i) ==
    IF i > Len(ops) THEN 0
    ELSE IF ops[i] = name THEN i
    ELSE OpIndex(ops, name, i + 1)

WrotePrimary ==
    /\ last.op = "updateStatus"
    /\ OpIndex(last.ops, "writePrimary", 1) # 0
    /\ Readable(last.prePrimary)
    /\ "readOriginal" \notin last.fault

BackupFirst ==
    /\ OpIndex(last.ops, "writeBackup", 1) # 0
    /\ OpIndex(last.ops, "writeBackup", 1) < OpIndex(last.ops, "writePrimary", 1)
    /\ backup = last.prePrimary

\* C14: in every updateStatus call that writes the primary file while the primary
\* file was readable at the start of the call, the backup write happens before
\* the primary write and afterwards the backup holds the bytes the primary file
\* held when the call began.
C14_BackupPrecedesMutation == WrotePrimary => BackupFirst

\* C14 for the calls whose backup write succeeds (a failed backup write is
\* logged and the call goes on to write the primary file).
C14_BackupPrecedesMutationWhenWritten ==
    (WrotePrimary /\ "writeBackup" \notin last.fault) => BackupFirst

C14_Witness ==
    /\ WrotePrimary
    /\ last.outcome = "saved"
    /\ last.fault = {}
    /\ last.preBackup # last.prePrimary
    /\ backup = last.prePrimary
    /\ primary # last.prePrimary

\* the primary file's valid records: the objects of a JSON array
ValidRecords(file) ==
    IF file.kind # "array" THEN 0
    ELSE Cardinality({i \in 1..Len(file.items) : IsObject(file.items[i])})

\* C15: for every file state and every I/O failure, updateStatus and
\* updateWorktree return without an uncaught error and leave the primary file
\* with no fewer valid records than before the call.
C15_WritePathNeverRaises ==
    last.op \in {"updateStatus", "updateWorktree"} =>
       /\ last.outcome # "raised"
       /\ ValidRecords(primary) >= ValidRecords(last.prePrimary)

----------------------------------------------------------------------------
(* libs/platform/src/subprocess.ts: spawnJSONLProcess.

   run.pc is the position of the async generator: "loop" (awaiting the next
   line of the for await at line 96), "yielded" (suspended at the yield of line
   103 or 110 until the consumer calls next()), "waitExit" (awaiting the promise
   of lines 127-137), "yieldedFinal" (suspended at the yield of line 143),
   "done", "threw" (the rethrow of line 118 reached the consumer), "crashed"
   (an 'error' event without listener was thrown in the host process).
   run.proc is the subprocess: "running", "signalled" (SIGTERM sent, not yet
   dead), "ended", "failed" (never spawned).
   An exit code is <<>> for null and <<c>> for the number c. *)

JsonLine == "{\"type\":\"text\"}"
MalformedLine == "oops"
BlankLine == "  "
StdoutLines == {JsonLine, MalformedLine, BlankLine}

ExitCodes == {0, 1}

\* line.trim()
Trim(line) == IF line = BlankLine THEN "" ELSE line

\* JSON.parse(line): <<value>>, or <<>> when it throws
JsonParse(line) == IF line = JsonLine THEN <<[type |-> "text"]>> ELSE <<>>

\* lines 101-114: the record yielded for a non-blank line
LineRecord(line) ==
    IF JsonParse(line) # <<>> THEN JsonParse(line)[1]
    ELSE [type |-> "error", error |-> "Failed to parse output: " \o line]

\* lines 140-147: the record yielded for a non-zero exit code
ExitRecord(code, stderrOutput) ==
    [type |-> "error",
     error |-> IF stderrOutput # "" THEN stderrOutput
               ELSE "Process exited with code " \o ToString(code)]

\* Mutant: a rearm leaves the timer armed before it pending
ResetTimeout_keepsPrevious(r, t) ==
    [r EXCEPT !.lastOutputTime = t, !.timer = Append(r.timer, t)]

\* lines 59-73: resetTimeout() at time t
ResetTimeout(r, t) == [r EXCEPT !.lastOutputTime = t, !.timer = <<t>>]

\* Mutant: a line that does not parse ends the stdout loop
ConsumeLine_stopsOnMalformed(r, t) ==
    LET line == Head(r.buf)
        r1 == [ResetTimeout(r, t) EXCEPT !.buf = Tail(r.buf),
                                         !.taken = Append(r.taken, line)]
    IN IF Trim(line) = "" THEN r1
       ELSE IF JsonParse(line) = <<>>
       THEN [r1 EXCEPT !.records = Append(r.records, LineRecord(line)),
                       !.pc = "yielded", !.buf = <<>>]
       ELSE [r1 EXCEPT !.records = Append(r.records, LineRecord(line)),
                       !.pc = "yielded"]

\* lines 96-115, one iteration of the for await on the next buffered line
ConsumeLine(r, t) ==
    LET line == Head(r.buf)
        r1 == [ResetTimeout(r, t) EXCEPT !.buf = Tail(r.buf),
                                         !.taken = Append(r.taken, line)]
    IN IF Trim(line) = "" THEN r1
       ELSE [r1 EXCEPT !.records = Append(r.records, LineRecord(line)),
                       !.pc = "yielded"]

\* Mutant: stderr output alone makes the run a failure
AfterExit_reportsStderr(r) ==
    IF (r.exitCode # <<>> /\ r.exitCode # <<0>>) \/ r.stderr # ""
    THEN [r EXCEPT !.records = Append(r.records,
                                      ExitRecord(IF r.exitCode = <<>> THEN 0
                                                 ELSE r.exitCode[1], r.stderr)),
                   !.exitErrorYielded = TRUE, !.pc = "yieldedFinal"]
    ELSE [r EXCEPT !.pc = "done"]

\* lines 127-147 once the promise resolves with exitCode
AfterExit(r) ==
    IF r.exitCode # <<>> /\ r.exitCode # <<0>>
    THEN [r EXCEPT !.records = Append(r.records,
                                      ExitRecord(r.exitCode[1], r.stderr)),
                   !.exitErrorYielded = TRUE, !.pc = "yieldedFinal"]
    ELSE [r EXCEPT !.pc = "done"]

InitProc ==
    /\ primary = MissingFile
    /\ backup = MissingFile
    /\ now = 0
    /\ ncalls = 0
    /\ last = NoCall
    /\ calls = NoCalls
    /\ selItems = <<>>
    /\ selResult = <<>>
    /\ run = NoRun
    /\ sched = NoSched

\* the subprocess is alive; SIGTERM does not end it at once
Running == run.pc \notin {"none", "crashed"} /\ run.proc \in {"running", "signalled"}

\* a run whose stream the consumer is still iterating
Iterating == run.pc \notin {"none", "done", "threw", "crashed"}

\* childProcess.kill("SIGTERM") sent by `by`: no effect on a subprocess that was
\* already signalled or has ended
Kill(r, by, t) ==
    IF r.proc = "running"
    THEN [r EXCEPT !.proc = "signalled", !.killedBy = by,
                   !.silenceAtKill = t - r.lastWriteAt]
    ELSE r

\* the consumer's first next(): lines 29-93
SpawnRun ==
    /\ run.pc = "none"
    /\ run' = [pc |-> "loop", proc |-> "running", exitCode |-> <<>>,
               killedBy |-> "none", silenceAtKill |-> 0,
               eof |-> FALSE, exitEmitted |-> FALSE,
               buf |-> <<>>, written |-> <<>>, taken |-> <<>>,
               lastWriteAt |-> now, stderr |-> "",
               stderrPending |-> "", stderrWritten |-> "",
               aborted |-> FALSE, preAborted |-> FALSE,
               timer |-> <<now>>, lastOutputTime |-> now,
               records |-> <<>>, exitErrorYielded |-> FALSE]
    /\ UNCHANGED <<primary, backup, now, ncalls, last, calls, selItems, selResult, sched>>

\* lines 29-93 for an abortController whose signal is already aborted or not:
\* addEventListener("abort", ...) at 79 only registers a listener, the state of
\* the signal is not read, and spawn() at 39-43 is not given the signal
SpawnWithToken(preAborted) ==
    [pc |-> "loop", proc |-> "running", exitCode |-> <<>>,
     killedBy |-> "none", silenceAtKill |-> 0,
     eof |-> FALSE, exitEmitted |-> FALSE,
     buf |-> <<>>, written |-> <<>>, taken |-> <<>>,
     lastWriteAt |-> now, stderr |-> "",
     stderrPending |-> "", stderrWritten |-> "",
     aborted |-> FALSE, preAborted |-> preAborted,
     timer |-> <<now>>, lastOutputTime |-> now,
     records |-> <<>>, exitErrorYielded |-> FALSE]

\* the consumer's first next() when abortController.abort() was called before
\* spawnJSONLProcess
SpawnRunAborted ==
    /\ run.pc = "none"
    /\ run' = SpawnWithToken(TRUE)
    /\ UNCHANGED <<primary, backup, now, ncalls, last, calls, selItems, selResult, sched>>

\* spawn() cannot start the command: the child object emits 'error' on the next
\* tick, when no 'error' listener is attached yet (line 133 comes after the
\* stdout loop), and an 'error' event without listener is thrown
SpawnFails ==
    /\ run.pc = "none"
    /\ run' = [pc |-> "crashed", proc |-> "failed", exitCode |-> <<>>,
               killedBy |-> "none", silenceAtKill |-> 0,
               eof |-> FALSE, exitEmitted |-> FALSE,
               buf |-> <<>>, written |-> <<>>, taken |-> <<>>,
               lastWriteAt |-> now, stderr |-> "",
               stderrPending |-> "", stderrWritten |-> "",
               aborted |-> FALSE, preAborted |-> FALSE,
               timer |-> <<now>>, lastOutputTime |-> now,
               records |-> <<>>, exitErrorYielded |-> FALSE]
    /\ UNCHANGED <<primary, backup, now, ncalls, last, calls, selItems, selResult, sched>>

\* the subprocess writes a line to stdout
ChildWritesLine ==
    /\ Running
    /\ Len(run.written) < MaxLines
    /\ \E line \in StdoutLines :
         run' = [run EXCEPT !.buf = Append(@, line),
                            !.written = Append(@, line),
                            !.lastWriteAt = now]
    /\ UNCHANGED <<primary, backup, now, ncalls, last, calls, selItems, selResult, sched>>

\* the subprocess writes to stderr; the text waits in the pipe
ChildWritesStderr ==
    /\ Running
    /\ run.stderrWritten = ""
    /\ run' = [run EXCEPT !.stderrWritten = "boom", !.stderrPending = "boom"]
    /\ UNCHANGED <<primary, backup, now, ncalls, last, calls, selItems, selResult, sched>>

\* the 'data' listener of lines 51-55 receives what waits in the pipe
StderrData ==
    /\ Iterating
    /\ run.stderrPending # ""
    /\ run' = [run EXCEPT !.stderr = @ \o run.stderrPending,
                          !.stderrPending = ""]
    /\ UNCHANGED <<primary, backup, now, ncalls, last, calls, selItems, selResult, sched>>

\* the subprocess exits by itself
ChildExits ==
    /\ Running
    /\ \E code \in ExitCodes :
         run' = [run EXCEPT !.proc = "ended", !.exitCode = <<code>>]
    /\ UNCHANGED <<primary, backup, now, ncalls, last, calls, selItems, selResult, sched>>

\* the subprocess dies of the SIGTERM it was sent
ChildDies ==
    /\ Running
    /\ run.proc = "signalled"
    /\ run' = [run EXCEPT !.proc = "ended", !.exitCode = <<>>]
    /\ UNCHANGED <<primary, backup, now, ncalls, last, calls, selItems, selResult, sched>>

\* the subprocess is killed by a signal from elsewhere
ChildKilled ==
    /\ Running
    /\ run.proc = "running"
    /\ run' = [run EXCEPT !.proc = "ended", !.exitCode = <<>>,
                          !.killedBy = "external"]
    /\ UNCHANGED <<primary, backup, now, ncalls, last, calls, selItems, selResult, sched>>

TimerDue ==
    /\ run.pc \notin {"none", "crashed"}
    /\ run.timer # <<>>
    /\ now - run.timer[1] >= IdleTimeout

\* the setTimeout callback of lines 64-72
WatchdogFires ==
    /\ TimerDue
    /\ run' = IF now - run.lastOutputTime >= IdleTimeout
              THEN Kill([run EXCEPT !.timer = <<>>], "watchdog", now)
              ELSE [run EXCEPT !.timer = <<>>]
    /\ UNCHANGED <<primary, backup, now, ncalls, last, calls, selItems, selResult, sched>>

\* the abort listener of lines 79-85: clearTimeout, then SIGTERM
AbortSignalled ==
    /\ Iterating
    /\ ~run.aborted
    /\ ~run.preAborted
    /\ run' = Kill([run EXCEPT !.aborted = TRUE, !.timer = <<>>], "abort", now)
    /\ UNCHANGED <<primary, backup, now, ncalls, last, calls, selItems, selResult, sched>>

\* reading stdout fails while the for await waits for a line: catch of lines
\* 116-118 rethrows, finally of 119-123 clears the timer
StdoutReadError ==
    /\ run.pc = "loop"
    /\ run.buf = <<>>
    /\ ~run.eof
    /\ run' = [run EXCEPT !.timer = <<>>, !.pc = "threw"]
    /\ UNCHANGED <<primary, backup, now, ncalls, last, calls, selItems, selResult, sched>>

\* end-of-stream of the subprocess's stdout reaches readline
StdoutCloses ==
    /\ run.pc \notin {"none", "crashed"}
    /\ run.proc = "ended"
    /\ ~run.eof
    /\ run' = [run EXCEPT !.eof = TRUE]
    /\ UNCHANGED <<primary, backup, now, ncalls, last, calls, selItems, selResult, sched>>

\* Mutant: the exit listener is attached at spawn time and the error record is
\* yielded as soon as the exit event arrives
ExitEvent_reportsAtOnce ==
    /\ run.pc \notin {"none", "crashed"}
    /\ run.proc = "ended"
    /\ ~run.exitEmitted
    /\ run' = AfterExit([run EXCEPT !.exitEmitted = TRUE])
    /\ UNCHANGED <<primary, backup, now, ncalls, last, calls, selItems, selResult, sched>>

\* the child process object emits 'exit': heard only by the listener that line
\* 128 attaches once the generator is at the promise
ExitEvent ==
    /\ run.pc \notin {"none", "crashed"}
    /\ run.proc = "ended"
    /\ ~run.exitEmitted
    /\ run' = IF run.pc = "waitExit"
              THEN AfterExit([run EXCEPT !.exitEmitted = TRUE])
              ELSE [run EXCEPT !.exitEmitted = TRUE]
    /\ UNCHANGED <<primary, backup, now, ncalls, last, calls, selItems, selResult, sched>>

\* the for await takes the next line
TakeLine ==
    /\ run.pc = "loop"
    /\ run.buf # <<>>
    /\ run' = ConsumeLine(run, now)
    /\ UNCHANGED <<primary, backup, now, ncalls, last, calls, selItems, selResult, sched>>

\* the for await ends at end-of-stream: finally of lines 119-123, then the
\* promise of line 127 is created
StdoutLoopEnds ==
    /\ run.pc = "loop"
    /\ run.buf = <<>>
    /\ run.eof
    /\ run' = [run EXCEPT !.timer = <<>>, !.pc = "waitExit"]
    /\ UNCHANGED <<primary, backup, now, ncalls, last, calls, selItems, selResult, sched>>

\* the consumer calls next() again
ConsumerPulls ==
    /\ run.pc \in {"yielded", "yieldedFinal"}
    /\ run' = [run EXCEPT !.pc = IF run.pc = "yielded" THEN "loop" ELSE "done"]
    /\ UNCHANGED <<primary, backup, now, ncalls, last, calls, selItems, selResult, sched>>

\* time passes; a due timer runs, and a generator awaiting a line takes a
\* buffered one, before the clock moves on
TickProc ==
    /\ Iterating
    /\ now < MaxClock
    /\ ~TimerDue
    /\ ~(run.pc = "loop" /\ run.buf # <<>>)
    /\ now' = now + 1
    /\ UNCHANGED <<primary, backup, ncalls, last, calls, selItems, selResult, run, sched>>

NextProc ==
    \/ SpawnRun
    \/ SpawnRunAborted
    \/ SpawnFails
    \/ ChildWritesLine
    \/ ChildWritesStderr
    \/ StderrData
    \/ ChildExits
    \/ ChildDies
    \/ ChildKilled
    \/ WatchdogFires
    \/ AbortSignalled
    \/ StdoutReadError
    \/ StdoutCloses
    \/ ExitEvent
    \/ TakeLine
    \/ StdoutLoopEnds
    \/ ConsumerPulls
    \/ TickProc

SpecProc == InitProc /\ [][NextProc]_vars

Spawned == run.pc # "none"

\* the records derived from stdout lines (all but the synthetic exit record)
LineRecords ==
    IF run.exitErrorYielded THEN SubSeq(run.records, 1, Len(run.records) - 1)
    ELSE run.records

\* C16: when the idle watchdog fires and its signal terminates the subprocess,
\* the record stream ends with a terminal error record.
C16_IdleTimeoutReported ==
    (Spawned /\ run.pc = "done" /\ run.killedBy = "watchdog"
        /\ run.exitCode = <<>>) =>
       /\ run.records # <<>>
       /\ run.exitErrorYielded
       /\ run.records[Len(run.records)].type = "error"

\* C17: when the subprocess ends with a non-zero or null exit code and no record
\* was emitted, the stream yields exactly one synthetic error record carrying
\* the captured stderr, or a generic exit-code message when stderr is empty.
C17_FailedExitYieldsError ==
    (Spawned /\ run.pc = "done" /\ run.exitCode # <<0>> /\ LineRecords = <<>>) =>
       /\ Len(run.records) = 1
       /\ run.records[1].type = "error"
       /\ run.records[1].error =
             IF run.stderr # "" THEN run.stderr
             ELSE IF run.exitCode = <<>> THEN "Process exited with code null"
             ELSE "Process exited with code " \o ToString(run.exitCode[1])

\* C18: once the exit event and the closing of stdout have both happened, in
\* either order, the generator is never left waiting for an exit event that has
\* already been emitted.
C18_StreamTerminates ==
    Spawned => ~(run.pc = "waitExit" /\ run.exitEmitted /\ run.eof)

\* what the stream owes for a sequence of stdout lines
RECURSIVE ExpectedRecords(_)
ExpectedRecords(lines) ==
    IF lines = <<>> THEN <<>>
    ELSE IF Head(lines) = BlankLine THEN ExpectedRecords(Tail(lines))
    ELSE IF Head(lines) = JsonLine
    THEN <<[type |-> "text"]>> \o ExpectedRecords(Tail(lines))
    ELSE <<[type |-> "error",
            error |-> "Failed to parse output: " \o Head(lines)]>>
         \o ExpectedRecords(Tail(lines))

\* C19: the stream yields one record per non-blank stdout line in arrival order
\* (the parsed value, or an error record with the raw line), nothing for a blank
\* line, and a malformed line never ends the stream early.
C19_MalformedLineResilience ==
    Spawned =>
       /\ LineRecords = ExpectedRecords(run.taken)
       /\ run.taken \o run.buf = run.written
       /\ run.pc \in {"waitExit", "yieldedFinal", "done"} =>
             LineRecords = ExpectedRecords(run.written)

C19_Witness ==
    /\ Spawned
    /\ run.pc = "done"
    /\ run.written = <<MalformedLine, JsonLine>>
    /\ Len(run.records) = 2
    /\ run.records[1].type = "error"
    /\ run.records[2] = [type |-> "text"]

\* C20: the watchdog sends the termination signal only when the subprocess has
\* written no output line during the preceding idle timeout, however slowly the
\* consumer pulls records.  (A line written at the very instant the timer runs
\* is not held against the watchdog.)
C20_WatchdogOnlyOnSilence ==
    (Spawned /\ run.killedBy = "watchdog") =>
       (run.silenceAtKill >= IdleTimeout \/ run.silenceAtKill = 0)

\* C21: once the cancellation token is signalled during a run, no watchdog
\* timer is armed from that point to the end of the run, even if the subprocess
\* writes further lines before exiting.
C21_CancellationStopsWatchdog ==
    (Spawned /\ run.aborted) => run.timer = <<>>

\* C22: for every failure of a run (the subprocess cannot be spawned, reading
\* stdout fails, the process exits abnormally) the stream ends with a terminal
\* error record, and nothing is thrown to the consumer or the host process.
C22_FailuresAreRecords ==
    Spawned =>
       /\ run.pc \notin {"threw", "crashed"}
       /\ (run.pc = "done" /\ run.exitCode # <<0>>) =>
             /\ run.exitErrorYielded
             /\ run.records[Len(run.records)].type = "error"

\* C23: no record is derived from stderr, and on a non-zero exit the terminal
\* error record carries everything the subprocess wrote to stderr, whatever
\* the order of the stderr data events and the exit event.
C23_StderrCapturedInFull ==
    Spawned =>
       /\ LineRecords = ExpectedRecords(run.taken)
       /\ run.exitErrorYielded =>
             run.records[Len(run.records)].error =
                IF run.stderrWritten # "" THEN run.stderrWritten
                ELSE "Process exited with code " \o ToString(run.exitCode[1])

\* C24: when the subprocess exits with code 0 the stream yields no synthetic
\* error record; its records are exactly those produced from the stdout lines.
C24_CleanSuccessAddsNothing ==
    (Spawned /\ run.exitCode = <<0>>) =>
       /\ ~run.exitErrorYielded
       /\ run.records = ExpectedRecords(run.taken)
       /\ run.pc = "done" => run.records = ExpectedRecords(run.written)

\* a finished run of a subprocess that exited with 0 after writing a line and
\* some stderr text
C24_Witness ==
    /\ Spawned
    /\ run.pc = "done"
    /\ run.exitCode = <<0>>
    /\ run.stderr = "boom"
    /\ run.written = <<JsonLine, BlankLine>>
    /\ run.records = <<[type |-> "text"]>>

----------------------------------------------------------------------------
(* The Scheduler (spec section 4.4 and 5): start, stop, setConcurrency, the
   in-flight counter and the RunHandles, on top of the store's
   selectNextFeature and updateFeatureStatus.

   A RunHandle is [id, phase, cancelled, outcome]: phase "running", "signalled"
   (a termination signal was sent by stop() or by the idle timeout) or "exited"
   (the subprocess's exit event has arrived; outcome is the status its
   terminal record maps to). *)

ItemIds == <<"a", "b", "c", "d">>
SchedItems == {ItemIds[i] : i \in 1..MaxItems}

Outcomes == {"verified", "waiting_approval", "error"}

ActiveIds(s) == {s.runs[i].id : i \in DOMAIN s.runs}

\* Mutant: selectNext alone, whatever is already running
SchedulerSelect_ignoresActive(features, active) == SelectNextFeature(features)

\* the next eligible item not already running
SchedulerSelect(features, active) ==
    SelectNextFeature(SelectSeq(features, LAMBDA f : Get(f, "id") \notin active))

\* Mutant: a run is launched whenever an item is eligible
CanLaunch_ignoresLimit(s) == s.started

\* a slot is available
CanLaunch(s) == s.started /\ s.count < s.limit

\* the termination signal reaches a subprocess that has not exited
SignalHandle(h) == IF h.phase = "running" THEN [h EXCEPT !.phase = "signalled"] ELSE h

\* Mutant: stop() forgets the runs and resets the counter
StopScheduler_dropsRuns(s) ==
    [s EXCEPT !.started = FALSE, !.runs = <<>>, !.count = 0]

\* Mutant: stop() only prevents new selections
StopScheduler_keepsRuns(s) == [s EXCEPT !.started = FALSE]

\* stop(): cancellation is signalled to every active RunHandle
StopScheduler(s) ==
    [s EXCEPT !.started = FALSE,
              !.runs = [i \in DOMAIN s.runs |->
                          [SignalHandle(s.runs[i]) EXCEPT !.cancelled = TRUE]]]

\* position of the RunHandle serving id, 0 if none
RECURSIVE HandleIndex(_, _, _)
HandleIndex(runs, id, i) ==
    IF i > Len(runs) THEN 0
    ELSE IF runs[i].id = id THEN i
    ELSE HandleIndex(runs, id, i + 1)

RemoveAt(seq, i) == SubSeq(seq, 1, i - 1) \o SubSeq(seq, i + 1, Len(seq))

InitSched ==
    /\ primary = ArrayFile([i \in 1..MaxItems |-> MinimalFeature(ItemIds[i], "backlog")])
    /\ backup = MissingFile
    /\ now = 0
    /\ ncalls = 0
    /\ last = NoCall
    /\ calls = NoCalls
    /\ selItems = <<>>
    /\ selResult = <<>>
    /\ run = NoRun
    /\ sched = NoSched

StartScheduler ==
    /\ ~sched.started
    /\ \E n \in 1..MaxLimit : sched' = [sched EXCEPT !.started = TRUE, !.limit = n]
    /\ UNCHANGED <<primary, backup, now, ncalls, last, calls, selItems, selResult, run>>

StopSched ==
    /\ sched.started
    /\ sched' = StopScheduler(sched)
    /\ UNCHANGED <<primary, backup, now, ncalls, last, calls, selItems, selResult, run>>

SetConcurrency ==
    /\ sched.started
    /\ \E n \in 1..MaxLimit : n # sched.limit /\ sched' = [sched EXCEPT !.limit = n]
    /\ UNCHANGED <<primary, backup, now, ncalls, last, calls, selItems, selResult, run>>

\* a scheduling opportunity: select, mark in_progress, launch
LaunchRun ==
    /\ CanLaunch(sched)
    /\ LET sel == SchedulerSelect(LoadFeatures(primary, now), ActiveIds(sched))
       IN /\ sel # <<>>
          /\ LET r == UpdateFeatureStatus(primary, backup, sel[1]["id"],
                                         "in_progress", Undefined, Undefined, now)
             IN /\ primary' = r.primary
                /\ backup' = r.backup
          /\ sched' = [sched EXCEPT
                          !.count = @ + 1,
                          !.runs = Append(@, [id |-> sel[1]["id"], phase |-> "running",
                                              cancelled |-> FALSE, outcome |-> "none"])]
    /\ UNCHANGED <<now, ncalls, last, calls, selItems, selResult, run>>

\* the idle timeout of a run sends the termination signal
RunTimesOut(id) ==
    /\ HandleIndex(sched.runs, id, 1) # 0
    /\ sched.runs[HandleIndex(sched.runs, id, 1)].phase = "running"
    /\ sched' = [sched EXCEPT !.runs[HandleIndex(sched.runs, id, 1)] = SignalHandle(@)]
    /\ UNCHANGED <<primary, backup, now, ncalls, last, calls, selItems, selResult, run>>

\* the subprocess of a run exits
RunExits(id) ==
    /\ HandleIndex(sched.runs, id, 1) # 0
    /\ sched.runs[HandleIndex(sched.runs, id, 1)].phase # "exited"
    /\ \E o \in Outcomes :
         sched' = [sched EXCEPT !.runs[HandleIndex(sched.runs, id, 1)] =
                                   [@ EXCEPT !.phase = "exited", !.outcome = o]]
    /\ UNCHANGED <<primary, backup, now, ncalls, last, calls, selItems, selResult, run>>

\* the terminal record of an exited run is handled: status update (not for a
\* cancelled run), slot freed, RunHandle destroyed
RunCompletes(id) ==
    /\ HandleIndex(sched.runs, id, 1) # 0
    /\ LET i == HandleIndex(sched.runs, id, 1)
           h == sched.runs[i]
           r == UpdateFeatureStatus(primary, backup, id, h.outcome,
                                    IF h.outcome = "error" THEN Undefined ELSE "done",
                                    IF h.outcome = "error" THEN "failed" ELSE Undefined,
                                    now)
       IN /\ h.phase = "exited"
          /\ primary' = IF h.cancelled THEN primary ELSE r.primary
          /\ backup' = IF h.cancelled THEN backup ELSE r.backup
          /\ sched' = [sched EXCEPT !.count = @ - 1, !.runs = RemoveAt(@, i)]
    /\ UNCHANGED <<now, ncalls, last, calls, selItems, selResult, run>>

NextSched ==
    \/ StartScheduler
    \/ StopSched
    \/ SetConcurrency
    \/ LaunchRun
    \/ \E id \in SchedItems : RunTimesOut(id)
    \/ \E id \in SchedItems : RunExits(id)
    \/ \E id \in SchedItems : RunCompletes(id)

SpecSched == InitSched /\ [][NextSched]_vars

\* every launched run exits and is completed; a free slot is used
SpecSchedFair ==
    /\ SpecSched
    /\ WF_vars(LaunchRun)
    /\ \A id \in SchedItems : WF_vars(RunExits(id)) /\ WF_vars(RunCompletes(id))

\* the persisted status of an item
StatusOf(id) ==
    LET i == FindIndex(primary.items, id)
    IN IF i = 0 THEN Undefined ELSE Get(primary.items[i], "status")

C26_OneRunPerItem ==
    \A i, j \in DOMAIN sched.runs : i # j => sched.runs[i].id # sched.runs[j].id

\* two runs in flight while selectNext alone still returns the item of the first
C26_Witness ==
    /\ Len(sched.runs) = 2
    /\ sched.runs[1].id # sched.runs[2].id
    /\ SelectNextFeature(LoadFeatures(primary, now)) # <<>>
    /\ SelectNextFeature(LoadFeatures(primary, now))[1]["id"] = sched.runs[1].id

\* C27: with a started scheduler, a limit of at least 1 and runs that all
\* complete, every eligible backlog item eventually reaches verified,
\* waiting_approval or error.  (Stated for a scheduler that stays started with
\* a limit that stays 1.)
C27_BacklogProgress ==
    (<>[](sched.started /\ sched.limit = 1)) =>
       \A id \in SchedItems : <>(StatusOf(id) \in Outcomes)

\* C28: after stop() every active run has been sent a cancellation signal, no
\* run is launched until start is called again, and stop() changes the
\* persisted status of no item.
C28_Stop ==
    [][ /\ (sched.started /\ ~sched'.started) =>
              /\ primary' = primary
              /\ Len(sched'.runs) = Len(sched.runs)
              /\ \A i \in DOMAIN sched'.runs :
                    /\ sched'.runs[i].cancelled
                    /\ sched'.runs[i].phase # "running"
        /\ ~sched.started => Len(sched'.runs) <= Len(sched.runs) ]_vars

\* stopped with two cancelled runs whose items are still in_progress
C28_Witness ==
    /\ ~sched.started
    /\ Len(sched.runs) = 2
    /\ \A i \in DOMAIN sched.runs :
          /\ sched.runs[i].cancelled
          /\ StatusOf(sched.runs[i].id) = "in_progress"

\* C29: the in-flight counter is decremented only after the run's subprocess
\* exit event, never at the moment cancellation or the idle timeout sends the
\* termination signal.
C29_SlotFreedOnlyByExit ==
    [][ sched'.count < sched.count =>
          /\ sched'.count = sched.count - 1
          /\ \E i \in DOMAIN sched.runs :
                /\ sched.runs[i].phase = "exited"
                /\ sched'.runs = RemoveAt(sched.runs, i) ]_vars

\* a signalled run that has not exited still holds its slot
C29_Witness ==
    /\ sched.count = 1
    /\ Len(sched.runs) = 1
    /\ sched.runs[1].phase = "signalled"

----------------------------------------------------------------------------
(* The field projection of the two writers, over files written by hand or by
   the planning step: records with a field the store does not know, without
   one of the canonical fields, or with an optional field set to null *)

ProjPrimaries ==
    { ArrayFile(<<>>),
      ArrayFile(<<SetField(MinimalFeature("a", "backlog"), "priority", "1"),
                  FullFeature("b", "backlog")>>),
      ArrayFile(<<MinimalFeature("a", "backlog"),
                  DeleteField(MinimalFeature("b", "backlog"), "category")>>),
      ArrayFile(<<SetField(MinimalFeature("a", "in_progress"), "model", Null),
                  MinimalFeature("b", "backlog")>>),
      ArrayFile(<<MinimalFeature("a", "backlog"),
                  SetField(MinimalFeature("b", "backlog"), "summary", Undefined)>>) }

ProjBackups ==
    { MissingFile,
      ArrayFile(<<MinimalFeature("a", "backlog"),
                  SetField(FullFeature("b", "backlog"), "title", "t")>>) }

InitProj ==
    /\ primary \in ProjPrimaries
    /\ backup \in ProjBackups
    /\ now = 0
    /\ ncalls = 0
    /\ last = NoCall
    /\ calls = NoCalls
    /\ selItems = <<>>
    /\ selResult = <<>>
    /\ run = NoRun
    /\ sched = NoSched

SpecProj == InitProj /\ [][NextIO]_vars

\* the last call was an updateStatus or updateWorktree that wrote the file
Saved ==
    /\ last.op \in {"updateStatus", "updateWorktree"}
    /\ last.outcome = "saved"

\* the record carries the canonical fields, and no field outside the two lists
CanonicalRecord(rec) ==
    /\ CanonicalFields \subseteq DOMAIN rec
    /\ DOMAIN rec \subseteq CanonicalFields \cup OptionalFields

\* C30: after every successful updateStatus or updateWorktree, every record of
\* the persisted file contains id, category, description, steps and status,
\* contains an optional field only when that field was defined in the working
\* set, and contains no other field.
C30_CanonicalProjection ==
    Saved =>
       /\ primary.kind = "array"
       /\ Len(primary.items) = Len(last.working)
       /\ \A i \in 1..Len(primary.items) :
             /\ CanonicalRecord(primary.items[i])
             /\ \A o \in OptionalFields :
                   o \in DOMAIN primary.items[i] <=>
                      Get(last.working[i], o) # Undefined

----------------------------------------------------------------------------
(* Order and identity of the persisted items *)

\* the ids of a collection in stored order
IdSeq(items) == [i \in 1..Len(items) |-> Get(items[i], "id")]

\* C31: the core never deletes or reorders items: every updateStatus and
\* updateWorktree call made on a valid primary file leaves the sequence of item
\* ids of the persisted file as it was, so after any sequence of such calls it
\* is the initial sequence.
C31_IdSequencePreserved ==
    [][ ValidBacklog(primary) =>
           /\ ValidBacklog(primary')
           /\ IdSeq(primary'.items) = IdSeq(primary.items) ]_vars

\* a status call and a worktree call, both saved, on a list of two items
C31_Witness ==
    /\ ncalls = 2
    /\ last.op = "updateWorktree"
    /\ last.outcome = "saved"
    /\ Len(last.prePrimary.items) = 2
    /\ \E i \in 1..2 : Get(last.prePrimary.items[i], "status") = "verified"
    /\ IdSeq(primary.items) = <<"a", "b">>

----------------------------------------------------------------------------
(* A caller that keeps the list load() returned and later addresses one of its
   items by the id it read there; the clock may advance between the calls *)

\* loadFeatures(projectPath); the caller keeps the result
LoadHeld ==
    /\ ncalls < MaxCalls
    /\ ncalls' = ncalls + 1
    /\ selItems' = LoadFeatures(primary, now)
    /\ last' = [op |-> "load", now |-> now, held |-> selItems,
                prePrimary |-> primary, result |-> LoadFeatures(primary, now)]
    /\ UNCHANGED <<primary, backup, now, calls, selResult, run, sched>>

\* updateFeatureStatus(held[i].id, s, projectPath)
UpdateStatusHeld ==
    /\ ncalls < MaxCalls
    /\ ncalls' = ncalls + 1
    /\ \E i \in 1..Len(selItems), s \in StatusArgs :
         LET id == Get(selItems[i], "id")
             r == UpdateFeatureStatus(primary, backup, id, s,
                                      Undefined, Undefined, now)
         IN /\ primary' = r.primary
            /\ backup' = r.backup
            /\ last' = [op |-> "updateStatus", id |-> id, heldIdx |-> i,
                        now |-> now, prePrimary |-> primary,
                        working |-> r.working, outcome |-> r.outcome]
    /\ UNCHANGED <<now, calls, selItems, selResult, run, sched>>

\* updateFeatureWorktree(held[i].id, projectPath, "/wt/x", "feature/x")
UpdateWorktreeHeld ==
    /\ ncalls < MaxCalls
    /\ ncalls' = ncalls + 1
    /\ \E i \in 1..Len(selItems) :
         LET id == Get(selItems[i], "id")
             r == UpdateFeatureWorktree(primary, id, "/wt/x", "feature/x", now)
         IN /\ primary' = r.primary
            /\ last' = [op |-> "updateWorktree", id |-> id, heldIdx |-> i,
                        now |-> now, prePrimary |-> primary,
                        working |-> r.working, outcome |-> r.outcome]
    /\ UNCHANGED <<backup, now, calls, selItems, selResult, run, sched>>

NextHeld ==
    \/ LoadHeld
    \/ UpdateStatusHeld
    \/ UpdateWorktreeHeld
    \/ Tick

SpecHeld == Init /\ [][NextHeld]_vars

\* C32: the id load() reports for a persisted record is the same on every later
\* load(), also for a record stored without an id, and an id obtained from
\* load() addresses the same record in a later updateStatus or updateWorktree.
C32_IdsStable ==
    /\ (last.op = "load" /\ Len(last.held) = Len(last.result))
          => IdSeq(last.result) = IdSeq(last.held)
    /\ (last.op \in {"updateStatus", "updateWorktree"})
          => (last.outcome = "saved" /\ LastIdx = last.heldIdx)

----------------------------------------------------------------------------
(* The status field *)

\* C33: the status of every persisted item is one of backlog, in_progress,
\* waiting_approval, verified, error, and each change made by updateStatus
\* follows an edge of the state machine: backlog -> in_progress; in_progress ->
\* verified, waiting_approval or error; error -> in_progress.
C33_StatusStateMachine ==
    LET edges == { <<"backlog", "in_progress">>, <<"in_progress", "verified">>,
                   <<"in_progress", "waiting_approval">>,
                   <<"in_progress", "error">>, <<"error", "in_progress">> }
    IN /\ primary.kind = "array" =>
             \A i \in 1..Len(primary.items) :
                Get(primary.items[i], "status") \in Statuses
       /\ (Updated /\ last.outcome = "saved") =>
             LET old == Get(last.working[LastIdx], "status")
                 new == Get(primary.items[LastIdx], "status")
             IN old # new => <<old, new>> \in edges

----------------------------------------------------------------------------
(* Items left in_progress by a cancelled run *)

\* the item is in_progress and no RunHandle serves it
Orphaned(id) == StatusOf(id) = "in_progress" /\ id \notin ActiveIds(sched)

\* what the next scheduling pass would select
NextSelection == SchedulerSelect(LoadFeatures(primary, now), ActiveIds(sched))

\* C34: an item left in_progress with no active run is not auto-resumed: the
\* automatic selection never returns it.
C34_OrphanNotSelected ==
    \A id \in SchedItems :
       Orphaned(id) => (NextSelection = <<>> \/ NextSelection[1]["id"] # id)

\* C34 as the code has it: an item left in_progress with no active run is
\* eligible like a backlog item: the automatic selection returns it unless an
\* earlier eligible item that is not running precedes it.
C34_OrphanSelectedInOrder ==
    \A id \in SchedItems :
       Orphaned(id) =>
          /\ NextSelection # <<>>
          /\ FindIndex(primary.items, NextSelection[1]["id"])
                <= FindIndex(primary.items, id)

\* after a stop the first item is left in_progress without a run, later items
\* are in backlog, and the restarted scheduler is about to select it again
C34_Witness ==
    /\ sched.started
    /\ sched.runs = <<>>
    /\ Orphaned(ItemIds[1])
    /\ StatusOf(ItemIds[2]) = "backlog"
    /\ NextSelection # <<>>
    /\ NextSelection[1]["id"] = ItemIds[1]

----------------------------------------------------------------------------
(* Faults of the backup step *)

\* the same call with no failing operation
SameCallNoFault ==
    UpdateFeatureStatusIO(last.prePrimary, last.preBackup, last.id, "verified",
                          Undefined, Undefined, last.now, {})

\* C35: when reading the primary file or writing the backup fails at the start
\* of updateStatus, the call still reloads, patches and writes, and the outcome
\* for the primary file is the same as when the backup succeeds.
C35_FailedBackupNotFatal ==
    ( /\ last.op = "updateStatus"
      /\ last.fault \in {{"readOriginal"}, {"writeBackup"}} )
    => /\ last.outcome = SameCallNoFault.outcome
       /\ primary = SameCallNoFault.primary

----------------------------------------------------------------------------
(* What updateFeatureWorktree leaves alone *)

Keys(f, g) == DOMAIN f \cup DOMAIN g

\* the fields of record i that a worktree call on last.id may change
WorktreeKeys(i) == IF i = LastIdx THEN {"worktreePath", "branchName"} ELSE {}

\* the call left the backup file alone and, with nothing loaded or the id not
\* found, the primary file too
WorktreeNoWrite ==
    /\ backup = last.preBackup
    /\ last.outcome \in {"empty", "not_found"} => primary = last.prePrimary

\* C36: updateWorktree never reads or writes the backup file; when the loaded
\* collection is empty or the id is not found it performs no write; when it
\* does write, only worktreePath and branchName of the addressed item differ
\* from the loaded collection.
C36_WorktreeFrame ==
    last.op = "updateWorktree" =>
       /\ WorktreeNoWrite
       /\ last.outcome = "saved" =>
             /\ primary.kind = "array"
             /\ Len(primary.items) = Len(last.working)
             /\ \A i \in 1..Len(primary.items) :
                   \A k \in Keys(primary.items[i], last.working[i]) \ WorktreeKeys(i) :
                      Get(primary.items[i], k) = Get(last.working[i], k)

\* C36 with the projection: when it does write, every record keeps its
\* canonical and optional fields except worktreePath and branchName of the
\* addressed item, and a field outside those lists is dropped.
C36_WorktreeFrameProjected ==
    last.op = "updateWorktree" =>
       /\ WorktreeNoWrite
       /\ last.outcome = "saved" =>
             /\ primary.kind = "array"
             /\ Len(primary.items) = Len(last.working)
             /\ \A i \in 1..Len(primary.items) :
                   /\ DOMAIN primary.items[i] \subseteq
                         CanonicalFields \cup OptionalFields
                   /\ \A k \in (CanonicalFields \cup OptionalFields) \ WorktreeKeys(i) :
                         Get(primary.items[i], k) = Get(last.working[i], k)

\* a worktree was set on item a, which lost a field the store does not know,
\* while item b kept its own worktree
C36_Witness ==
    /\ last.op = "updateWorktree"
    /\ last.outcome = "saved"
    /\ last.id = "a"
    /\ Len(last.working) = 2
    /\ "priority" \in DOMAIN last.working[1]
    /\ "priority" \notin DOMAIN primary.items[1]
    /\ Get(primary.items[1], "worktreePath") = "/wt/x"
    /\ Get(primary.items[2], "worktreePath") = "/wt/b"

----------------------------------------------------------------------------
(* Cancellation requested before the run starts *)

\* C37: if the cancellation token is already signalled when the run starts, the
\* subprocess still receives the termination signal on behalf of the
\* cancellation: the run does not continue as if none had been requested.
C37_PreAbortHonoured ==
    (Spawned /\ run.preAborted) =>
       /\ run.killedBy = "abort"
       /\ run.records = <<>>

----------------------------------------------------------------------------
(* Position of the synthetic exit error in the stream *)

\* the records lines 140-147 can yield in this run
ExitRecords ==
    {ExitRecord(c, s) : c \in ExitCodes, s \in {"", run.stderr, run.stderrWritten}}

ExitRecordPositions == {i \in DOMAIN run.records : run.records[i] \in ExitRecords}

\* C38: the stream contains at most one synthetic exit-error record, it is
\* yielded only after every record produced from stdout lines, and no record
\* follows it.
C38_ExitErrorLastAndUnique ==
    Spawned =>
       /\ Cardinality(ExitRecordPositions) <= 1
       /\ \A i \in ExitRecordPositions :
             /\ i = Len(run.records)
             /\ run.buf = <<>>
             /\ SubSeq(run.records, 1, i - 1) = ExpectedRecords(run.written)
             /\ run.pc \in {"yieldedFinal", "done"}

\* a finished run: two stdout lines, then exit code 1 reported with the stderr text
C38_Witness ==
    /\ Spawned
    /\ run.pc = "done"
    /\ run.exitCode = <<1>>
    /\ run.written = <<MalformedLine, JsonLine>>
    /\ Len(run.records) = 3
    /\ run.records[3] = ExitRecord(1, "boom")

----------------------------------------------------------------------------
(* Repeating an updateFeatureStatus call *)

\* this step is an updateStatus call with the arguments of the call before it
RepeatsLastCall ==
    /\ last.op = "updateStatus"
    /\ ncalls' = ncalls + 1
    /\ last'.op = "updateStatus"
    /\ last'.id = last.id
    /\ last'.status = last.status
    /\ last'.summary = last.summary
    /\ last'.error = last.error

\* C39: for every valid backlog and every argument tuple (id, s, summary,
\* errorText), running the same updateStatus call a second time leaves the
\* primary file with the content the first call left.
C39_UpdateStatusIdempotent ==
    [][ (RepeatsLastCall /\ ValidBacklog(last.prePrimary)) =>
           primary' = primary ]_vars

\* the second of two saved calls with a summary and an error text found its
\* item already carrying them
C39_Witness ==
    /\ ncalls = 2
    /\ Updated
    /\ last.outcome = "saved"
    /\ last.summary = "s1" /\ last.error = "e1"
    /\ Get(last.working[LastIdx], "summary") = "s1"
    /\ Get(last.working[LastIdx], "error") = "e1"
    /\ Get(last.working[LastIdx], "status") = last.status
    /\ primary = last.prePrimary

----------------------------------------------------------------------------
(* The watchdog timers of a run: run.timer lists the arming times of the timers
   that are pending *)

\* the for await over stdout is over: end-of-stream seen with nothing left to
\* take, or a read error
LoopEnded == run.pc \in {"waitExit", "yieldedFinal", "done", "threw"}

\* C40: at every moment of a run at most one watchdog timer is pending, and
\* once standard output has reached end-of-stream no watchdog timer is pending.
\* (The instant at which the generator, awaiting a line, is about to see the
\* end-of-stream is not counted.)
C40_TimerDiscipline ==
    Spawned =>
       /\ Len(run.timer) <= 1
       /\ (run.eof /\ run.pc # "loop") => run.timer = <<>>

\* C40 as the code has it: at most one timer is pending, and none once the
\* stdout loop has ended.
C40_TimerClearedAfterLoop ==
    Spawned =>
       /\ Len(run.timer) <= 1
       /\ LoopEnded => run.timer = <<>>

\* the loop ended at end-of-stream after a line had rearmed the timer, and the
\* generator waits for the exit event with no timer pending
C40_Witness ==
    /\ Spawned
    /\ run.pc = "waitExit"
    /\ run.eof
    /\ Len(run.taken) = 2
    /\ run.lastOutputTime > 0
    /\ run.timer = <<>>

====
